---- MODULE Spec2Model ----
(***************************************************************************)
(* State-machine model of the chat server in src/server.js: the registry   *)
(* activeUsers, the log messageHistory, and the socket.io handlers         *)
(* register_user, send_message, typing_start, typing_stop and disconnect.  *)
(* Every handler runs to completion on the single Node.js event loop, so   *)
(* each handler is one atomic action.                                      *)
(***************************************************************************)
EXTENDS Integers, Sequences, FiniteSets

\* ---------------------------------------------------------------- bounds
MaxSockets == 3      \* socket ids the transport hands out: 1..MaxSockets
MaxEvents  == 6      \* inbound events (handler runs) in one behaviour
MaxClock   == 2      \* the millisecond clock runs 0..MaxClock

SocketIds == 1..MaxSockets

\* Stands for the JavaScript value undefined (register_user without payload).
Undefined == "<undefined>"
\* Usernames a client may send; "" and Undefined are the falsy ones.
Usernames == {"", Undefined, "alice", "bob"}
\* payload.content values a client may send (not validated by the server).
Contents  == {"hi", "yo"}

VARIABLES
    sockets,         \* socket id -> "none" | "open" | "closed" (socket.connected)
    activeUsers,     \* the registry object, as its entries in key insertion order
    socketUsername,  \* socket id -> socket.username (Undefined until set)
    messageHistory,  \* the log array
    now,             \* the wall clock read by Date.now() / new Date()
    emitted,         \* every outbound emit so far: [ev |-> event, to |-> recipients]
    last,            \* history variable: the inbound event handled last
    pc               \* socket id -> where that socket's running handler stands

vars == <<sockets, activeUsers, socketUsername, messageHistory, now, emitted, last, pc>>

\* ------------------------------------------------------- pure helpers
Min(a, b) == IF a < b THEN a ELSE b

\* Number.prototype.toString(): the decimal digits of n
RECURSIVE ToString(_)
ToString(n) == IF n < 10 THEN <<n>> ELSE ToString(n \div 10) \o <<n % 10>>

\* Date.prototype.toISOString(): seconds since the epoch and the 3-digit
\* zero-padded millisecond field
ToISOString(t) ==
    [sec |-> t \div 1000,
     ms  |-> <<(t % 1000) \div 100, (t % 100) \div 10, t % 10>>]

\* key in activeUsers / activeUsers[id]; the registry is the object's
\* entries [key, value] in key insertion order
HasUser(users, id) == \E i \in DOMAIN users : users[i].key = id
GetUser(users, id) == users[CHOOSE i \in DOMAIN users : users[i].key = id].value

\* activeUsers[id] = session : an existing key keeps its place in the
\* object's key order, a new key goes last
PutUser_append(users, id, session) == Append(users, [key |-> id, value |-> session])
PutUser(users, id, session) ==
    IF HasUser(users, id)
    THEN [i \in DOMAIN users |->
            IF users[i].key = id THEN [key |-> id, value |-> session] ELSE users[i]]
    ELSE Append(users, [key |-> id, value |-> session])

\* delete activeUsers[id]
DeleteUser_noop(users, id) == users
DeleteUser(users, id) == SelectSeq(users, LAMBDA e : e.key # id)

\* Object.values(activeUsers)
ObjectValues(users) == [i \in DOMAIN users |-> users[i].value]

\* messageHistory.push(message)
Push_unshift(history, message) == <<message>> \o history
Push_capped(history, message) ==
    IF Len(history) >= 1 THEN Append(Tail(history), message) ELSE Append(history, message)
Push(history, message) == Append(history, message)

\* ------------------------------------------------------- emits
\* sockets joined to the namespace: the recipients of io.emit
Room(socks) == {c \in SocketIds : socks[c] = "open"}

\* io.emit(ev)
IoEmit_registered(socks, ev) ==
    [ev |-> ev, to |-> {c \in Room(socks) : HasUser(activeUsers, c)}]
IoEmit(socks, ev) == [ev |-> ev, to |-> Room(socks)]
\* socket.emit(ev)
SocketEmit_io(id, ev) == IoEmit(sockets, ev)
SocketEmit(id, ev) == [ev |-> ev, to |-> {id}]
\* socket.broadcast.emit(ev)
BroadcastEmit_io(socks, id, ev) == IoEmit(socks, ev)
BroadcastEmit(socks, id, ev) == [ev |-> ev, to |-> Room(socks) \ {id}]

\* the events a client has received, in order
Inbox(id) ==
    LET got == SelectSeq(emitted, LAMBDA e : id \in e.to)
    IN  [i \in DOMAIN got |-> got[i].ev]

\* ------------------------------------------------------- Init
\* no handler of the socket is on the call stack
Idle == [at |-> "idle"]

NoEvent == [n |-> 0, kind |-> "none", id |-> 0, arg |-> "", had |-> FALSE, mark |-> 0]

Init ==
    /\ sockets = [c \in SocketIds |-> "none"]
    /\ activeUsers = <<>>
    /\ socketUsername = [c \in SocketIds |-> Undefined]
    /\ messageHistory = <<>>
    /\ now = 0
    /\ emitted = <<>>
    /\ last = NoEvent
    /\ pc = [c \in SocketIds |-> Idle]

\* history record of the inbound event being handled
Inbound(kind, id, arg) ==
    [n |-> last.n + 1, kind |-> kind, id |-> id, arg |-> arg,
     had |-> HasUser(activeUsers, id), mark |-> Len(emitted)]

\* ------------------------------------------------------- handlers
\* io.on('connection'): the transport assigns the next unused socket id
Connection(id) ==
    /\ last.n < MaxEvents
    /\ sockets[id] = "none"
    /\ \A c \in SocketIds : c < id => sockets[c] # "none"
    /\ sockets' = [sockets EXCEPT ![id] = "open"]
    /\ last' = Inbound("connection", id, "")
    /\ UNCHANGED <<activeUsers, socketUsername, messageHistory, now, emitted, pc>>

\* the 'disconnect' handler, run after the socket has left the namespace:
\* the pair (registry, emits) it leaves behind
OnDisconnect_always(id, users, socks, out) ==
    LET left == DeleteUser(users, id)
    IN  [users |-> left,
         out   |-> out \o
                   << IoEmit(socks, [type |-> "user_left", id |-> id]),
                      IoEmit(socks, [type |-> "active_users", users |-> ObjectValues(left)]) >>]
OnDisconnect_stale(id, users, socks, out) ==
    IF HasUser(users, id)
    THEN [users |-> DeleteUser(users, id),
          out   |-> out \o
                    << IoEmit(socks, [type |-> "user_left", id |-> GetUser(users, id).id]),
                       IoEmit(socks, [type |-> "active_users", users |-> ObjectValues(users)]) >>]
    ELSE [users |-> users, out |-> out]
OnDisconnect(id, users, socks, out) ==
    IF HasUser(users, id)
    THEN LET left == DeleteUser(users, id)
         IN  [users |-> left,
              out   |-> out \o
                        << IoEmit(socks, [type |-> "user_left", id |-> GetUser(users, id).id]),
                           IoEmit(socks, [type |-> "active_users", users |-> ObjectValues(left)]) >>]
    ELSE [users |-> users, out |-> out]

\* the transport closes an open socket
Disconnect(id) ==
    /\ last.n < MaxEvents
    /\ sockets[id] = "open"
    /\ LET socks == [sockets EXCEPT ![id] = "closed"]
           r     == OnDisconnect(id, activeUsers, socks, emitted)
       IN  /\ sockets' = socks
           /\ activeUsers' = r.users
           /\ emitted' = r.out
    /\ last' = Inbound("disconnect", id, "")
    /\ UNCHANGED <<socketUsername, messageHistory, now, pc>>

\* the user_registered payload { userId: socket.id, messageHistory }
UserRegistered_recent(id, history) ==
    [type |-> "user_registered", userId |-> id,
     messageHistory |-> IF history = <<>> THEN <<>> ELSE <<history[Len(history)]>>]
UserRegistered_live(id, history) ==
    [type |-> "user_registered", userId |-> id,
     messageHistory |->
        [i \in DOMAIN history |->
            [history[i] EXCEPT !.senderName =
                IF HasUser(activeUsers, history[i].senderId)
                THEN GetUser(activeUsers, history[i].senderId).username
                ELSE Undefined]]]
UserRegistered(id, history) ==
    [type |-> "user_registered", userId |-> id, messageHistory |-> history]

\* io.emit('user_joined', { id: socket.id, username: username })
UserJoined_exceptSender(socks, id, username) ==
    BroadcastEmit(socks, id, [type |-> "user_joined", id |-> id, username |-> username])
UserJoined(socks, id, username) ==
    IoEmit(socks, [type |-> "user_joined", id |-> id, username |-> username])

\* !username : JavaScript falsiness of the register_user payload
Falsy_undefinedOnly(username) == username = Undefined
Falsy(username) == username \in {"", Undefined}

\* socket.on('register_user')
RegisterUser(id, username) ==
    /\ last.n < MaxEvents
    /\ sockets[id] = "open"
    /\ last' = Inbound("register_user", id, username)
    /\ UNCHANGED pc
    /\ IF Falsy(username)
       THEN \* system_error, then socket.disconnect(true) runs the disconnect handler
            LET out   == Append(emitted,
                           SocketEmit(id, [type |-> "system_error",
                                           text |-> "Username cannot be empty."]))
                socks == [sockets EXCEPT ![id] = "closed"]
                r     == OnDisconnect(id, activeUsers, socks, out)
            IN  /\ sockets' = socks
                /\ activeUsers' = r.users
                /\ emitted' = r.out
                /\ UNCHANGED <<socketUsername, messageHistory, now>>
       ELSE LET users == PutUser(activeUsers, id,
                            [id |-> id, username |-> username, status |-> "online"])
            IN  /\ activeUsers' = users
                /\ socketUsername' = [socketUsername EXCEPT ![id] = username]
                /\ emitted' = emitted \o
                     << SocketEmit(id, UserRegistered(id, messageHistory)),
                        UserJoined(sockets, id, username),
                        IoEmit(sockets, [type |-> "active_users",
                                         users |-> ObjectValues(users)]) >>
                /\ UNCHANGED <<sockets, messageHistory, now>>

\* io.emit('new_message', message)
NewMessage_exceptSender(socks, id, message) ==
    BroadcastEmit(socks, id, [type |-> "new_message", message |-> message])
NewMessage(socks, id, message) ==
    IoEmit(socks, [type |-> "new_message", message |-> message])

\* socket.on('send_message'). The wall clock is only observed here: it may
\* have advanced (by at most one tick in the model) before Date.now() reads it
\* (t1), and again before new Date() reads it (t2).
SendMessage(id, content) ==
    /\ last.n < MaxEvents
    /\ sockets[id] = "open"
    /\ last' = Inbound("send_message", id, content)
    /\ UNCHANGED pc
    /\ IF ~HasUser(activeUsers, id)
       THEN /\ emitted' = Append(emitted,
                 SocketEmit(id, [type |-> "system_error",
                                 text |-> "Authentication failed. Please refresh."]))
            /\ UNCHANGED <<sockets, activeUsers, socketUsername, messageHistory, now>>
       ELSE \E t1 \in now..Min(now + 1, MaxClock) :
            \E t2 \in t1..Min(t1 + 1, MaxClock) :
            LET sender  == GetUser(activeUsers, id)
                message == [messageId  |-> ToString(t1),
                            chatId     |-> "group-1",
                            senderId   |-> sender.id,
                            senderName |-> sender.username,
                            content    |-> content,
                            type       |-> "text",
                            timestamp  |-> ToISOString(t2),
                            status     |-> "delivered"]
            IN  /\ messageHistory' = Push(messageHistory, message)
                /\ emitted' = emitted \o
                     << NewMessage(sockets, id, message),
                        IoEmit(sockets, [type |-> "typing_status", userId |-> sender.id,
                                         isTyping |-> FALSE]) >>
                /\ now' = t2
                /\ UNCHANGED <<sockets, activeUsers, socketUsername>>

\* socket.on('typing_start') and socket.on('typing_stop')
Typing_error(id, kind, isTyping) ==
    /\ last.n < MaxEvents
    /\ sockets[id] = "open"
    /\ last' = Inbound(kind, id, "")
    /\ IF HasUser(activeUsers, id)
       THEN LET sender == GetUser(activeUsers, id)
            IN  emitted' = Append(emitted,
                   BroadcastEmit(sockets, id,
                       [type |-> "typing_status", userId |-> sender.id,
                        username |-> sender.username, isTyping |-> isTyping]))
       ELSE emitted' = Append(emitted,
                 SocketEmit(id, [type |-> "system_error",
                                 text |-> "Authentication failed. Please refresh."]))
    /\ UNCHANGED <<sockets, activeUsers, socketUsername, messageHistory, now, pc>>
Typing(id, kind, isTyping) ==
    /\ last.n < MaxEvents
    /\ sockets[id] = "open"
    /\ last' = Inbound(kind, id, "")
    /\ IF HasUser(activeUsers, id)
       THEN LET sender == GetUser(activeUsers, id)
            IN  emitted' = Append(emitted,
                   BroadcastEmit(sockets, id,
                       [type |-> "typing_status", userId |-> sender.id,
                        username |-> sender.username, isTyping |-> isTyping]))
       ELSE UNCHANGED emitted
    /\ UNCHANGED <<sockets, activeUsers, socketUsername, messageHistory, now, pc>>

TypingStart(id) == Typing(id, "typing_start", TRUE)
TypingStop(id)  == Typing(id, "typing_stop", FALSE)

Next ==
    \/ \E id \in SocketIds : Connection(id)
    \/ \E id \in SocketIds : Disconnect(id)
    \/ \E id \in SocketIds, username \in Usernames : RegisterUser(id, username)
    \/ \E id \in SocketIds, content \in Contents : SendMessage(id, content)
    \/ \E id \in SocketIds : TypingStart(id)
    \/ \E id \in SocketIds : TypingStop(id)

Spec == Init /\ [][Next]_vars

\* ------------------------------------------------------- statement-level model
\* The same handlers, one step per emit: a handler that has changed the
\* registry or the log stops before each emit that follows, with pc[id]
\* naming the source line it will run next.  The handlers are synchronous
\* functions (no await, no callback), so Node's event loop starts a handler
\* only when no other handler is on the call stack.
\* inbound events in one behaviour of the statement-level model
StepEvents == MaxEvents - 1

CanStart_async == TRUE
CanStart == \A c \in SocketIds : pc[c].at = "idle"

\* io.on('connection')
StepConnection(id) == CanStart /\ last.n < StepEvents /\ Connection(id)

\* typing_start / typing_stop: at most one emit and no mutation
StepTypingStart(id) == CanStart /\ last.n < StepEvents /\ TypingStart(id)
StepTypingStop(id)  == CanStart /\ last.n < StepEvents /\ TypingStop(id)

\* lines 124-129 of the disconnect handler, run once the socket has left
\* the namespace: look the session up and delete it
BeginDisconnect(id) ==
    /\ CanStart
    /\ last.n < StepEvents
    /\ sockets[id] = "open"
    /\ last' = Inbound("disconnect", id, "")
    /\ sockets' = [sockets EXCEPT ![id] = "closed"]
    /\ IF HasUser(activeUsers, id)
       THEN /\ activeUsers' = DeleteUser(activeUsers, id)
            /\ pc' = [pc EXCEPT ![id] =
                        [at |-> "132", disconnectedUser |-> GetUser(activeUsers, id)]]
       ELSE UNCHANGED <<activeUsers, pc>>
    /\ UNCHANGED <<socketUsername, messageHistory, now, emitted>>

\* line 132: io.emit('user_left', disconnectedUser.id)
EmitUserLeft(id) ==
    /\ pc[id].at = "132"
    /\ emitted' = Append(emitted,
          IoEmit(sockets, [type |-> "user_left", id |-> pc[id].disconnectedUser.id]))
    /\ pc' = [pc EXCEPT ![id] = [at |-> "133"]]
    /\ UNCHANGED <<sockets, activeUsers, socketUsername, messageHistory, now, last>>

\* line 133: io.emit('active_users', Object.values(activeUsers))
EmitActiveUsersLeft(id) ==
    /\ pc[id].at = "133"
    /\ emitted' = Append(emitted,
          IoEmit(sockets, [type |-> "active_users", users |-> ObjectValues(activeUsers)]))
    /\ pc' = [pc EXCEPT ![id] = Idle]
    /\ UNCHANGED <<sockets, activeUsers, socketUsername, messageHistory, now, last>>

\* lines 50-57 of register_user; the empty-username branch emits system_error
\* and socket.disconnect(true) enters the disconnect handler at once
BeginRegisterUser(id, username) ==
    /\ CanStart
    /\ last.n < StepEvents
    /\ sockets[id] = "open"
    /\ last' = Inbound("register_user", id, username)
    /\ IF Falsy(username)
       THEN /\ emitted' = Append(emitted,
                 SocketEmit(id, [type |-> "system_error",
                                 text |-> "Username cannot be empty."]))
            /\ sockets' = [sockets EXCEPT ![id] = "closed"]
            /\ IF HasUser(activeUsers, id)
               THEN /\ activeUsers' = DeleteUser(activeUsers, id)
                    /\ pc' = [pc EXCEPT ![id] =
                                [at |-> "132", disconnectedUser |-> GetUser(activeUsers, id)]]
               ELSE UNCHANGED <<activeUsers, pc>>
            /\ UNCHANGED <<socketUsername, messageHistory, now>>
       ELSE /\ activeUsers' = PutUser(activeUsers, id,
                                 [id |-> id, username |-> username, status |-> "online"])
            /\ socketUsername' = [socketUsername EXCEPT ![id] = username]
            /\ pc' = [pc EXCEPT ![id] = [at |-> "60", username |-> username]]
            /\ UNCHANGED <<sockets, messageHistory, now, emitted>>

\* line 60: socket.emit('user_registered', ...)
EmitUserRegistered(id) ==
    /\ pc[id].at = "60"
    /\ emitted' = Append(emitted, SocketEmit(id, UserRegistered(id, messageHistory)))
    /\ pc' = [pc EXCEPT ![id] = [at |-> "63", username |-> pc[id].username]]
    /\ UNCHANGED <<sockets, activeUsers, socketUsername, messageHistory, now, last>>

\* line 63: io.emit('user_joined', ...)
EmitUserJoined(id) ==
    /\ pc[id].at = "63"
    /\ emitted' = Append(emitted,
          UserJoined(sockets, id, pc[id].username))
    /\ pc' = [pc EXCEPT ![id] = [at |-> "69"]]
    /\ UNCHANGED <<sockets, activeUsers, socketUsername, messageHistory, now, last>>

\* line 69: io.emit('active_users', Object.values(activeUsers))
EmitActiveUsersJoined(id) ==
    /\ pc[id].at = "69"
    /\ emitted' = Append(emitted,
          IoEmit(sockets, [type |-> "active_users", users |-> ObjectValues(activeUsers)]))
    /\ pc' = [pc EXCEPT ![id] = Idle]
    /\ UNCHANGED <<sockets, activeUsers, socketUsername, messageHistory, now, last>>

\* lines 76-95 of send_message: reject, or build the message and push it
BeginSendMessage(id, content) ==
    /\ CanStart
    /\ last.n < StepEvents
    /\ sockets[id] = "open"
    /\ last' = Inbound("send_message", id, content)
    /\ IF ~HasUser(activeUsers, id)
       THEN /\ emitted' = Append(emitted,
                 SocketEmit(id, [type |-> "system_error",
                                 text |-> "Authentication failed. Please refresh."]))
            /\ UNCHANGED <<sockets, activeUsers, socketUsername, messageHistory, now, pc>>
       ELSE \E t1 \in now..Min(now + 1, MaxClock) :
            \E t2 \in t1..Min(t1 + 1, MaxClock) :
            LET sender  == GetUser(activeUsers, id)
                message == [messageId  |-> ToString(t1),
                            chatId     |-> "group-1",
                            senderId   |-> sender.id,
                            senderName |-> sender.username,
                            content    |-> content,
                            type       |-> "text",
                            timestamp  |-> ToISOString(t2),
                            status     |-> "delivered"]
            IN  /\ messageHistory' = Push(messageHistory, message)
                /\ now' = t2
                /\ pc' = [pc EXCEPT ![id] = [at |-> "98", message |-> message]]
                /\ UNCHANGED <<sockets, activeUsers, socketUsername, emitted>>

\* line 98: io.emit('new_message', message)
EmitNewMessage(id) ==
    /\ pc[id].at = "98"
    /\ emitted' = Append(emitted, NewMessage(sockets, id, pc[id].message))
    /\ pc' = [pc EXCEPT ![id] = [at |-> "102", senderId |-> pc[id].message.senderId]]
    /\ UNCHANGED <<sockets, activeUsers, socketUsername, messageHistory, now, last>>

\* line 102: io.emit('typing_status', { userId: sender.id, isTyping: false })
EmitTypingStop_exceptSender(id) ==
    /\ pc[id].at = "102"
    /\ emitted' = Append(emitted,
          BroadcastEmit(sockets, id, [type |-> "typing_status", userId |-> pc[id].senderId,
                                      isTyping |-> FALSE]))
    /\ pc' = [pc EXCEPT ![id] = Idle]
    /\ UNCHANGED <<sockets, activeUsers, socketUsername, messageHistory, now, last>>
EmitTypingStop(id) ==
    /\ pc[id].at = "102"
    /\ emitted' = Append(emitted,
          IoEmit(sockets, [type |-> "typing_status", userId |-> pc[id].senderId,
                           isTyping |-> FALSE]))
    /\ pc' = [pc EXCEPT ![id] = Idle]
    /\ UNCHANGED <<sockets, activeUsers, socketUsername, messageHistory, now, last>>

StepNext ==
    \/ \E id \in SocketIds : StepConnection(id)
    \/ \E id \in SocketIds : StepTypingStart(id)
    \/ \E id \in SocketIds : StepTypingStop(id)
    \/ \E id \in SocketIds : BeginDisconnect(id)
    \/ \E id \in SocketIds : EmitUserLeft(id)
    \/ \E id \in SocketIds : EmitActiveUsersLeft(id)
    \/ \E id \in SocketIds, username \in Usernames : BeginRegisterUser(id, username)
    \/ \E id \in SocketIds : EmitUserRegistered(id)
    \/ \E id \in SocketIds : EmitUserJoined(id)
    \/ \E id \in SocketIds : EmitActiveUsersJoined(id)
    \/ \E id \in SocketIds, content \in Contents : BeginSendMessage(id, content)
    \/ \E id \in SocketIds : EmitNewMessage(id)
    \/ \E id \in SocketIds : EmitTypingStop(id)

StepSpec == Init /\ [][StepNext]_vars

\* ------------------------------------------------------- derived views
Last(seq) == seq[Len(seq)]

\* the emits made by the handler that ran last
NewEmits == SubSeq(emitted, last.mark + 1, Len(emitted))

\* what client id received out of a sequence of emits
Received(id, emits) ==
    LET got == SelectSeq(emits, LAMBDA e : id \in e.to)
    IN  [i \in DOMAIN got |-> got[i].ev]

OfType(events, type) == SelectSeq(events, LAMBDA ev : ev.type = type)

Registered == {c \in SocketIds : HasUser(activeUsers, c)}

\* the claims' own reading of "empty or missing username"
Empty(username) == username = "" \/ username = Undefined

\* a step that runs a handler (every handler advances last.n)
Handled == last'.n # last.n

IsPrefix(s, t) == Len(s) <= Len(t) /\ SubSeq(t, 1, Len(s)) = s

\* ======================================================= claims

\* C1  Broadcast completeness: right after a registered connection A has
\* handled send_message, every registered connection (A included) has received
\* exactly one new_message from that handler run, and it carries the record
\* appended to the log (the client's content, A's id and username).
C1_BroadcastCompleteness ==
    (last.kind = "send_message" /\ last.had) =>
        /\ messageHistory # <<>>
        /\ Last(messageHistory).content = last.arg
        /\ Last(messageHistory).senderId = last.id
        /\ Last(messageHistory).senderName = GetUser(activeUsers, last.id).username
        /\ \A c \in Registered :
              OfType(Received(c, NewEmits), "new_message")
                 = << [type |-> "new_message", message |-> Last(messageHistory)] >>

\* two registered connections, one of them has just sent
C1_Witness ==
    /\ last.kind = "send_message" /\ last.had
    /\ Cardinality(Registered) >= 2

\* C2  Ordering: the new_message events any open client has received are, in
\* order, exactly the entries the log appended since that client connected
\* (a suffix of the log), so all clients see the log's one total order.
C2_Ordering ==
    \A c \in SocketIds :
        sockets[c] = "open" =>
            LET seen == OfType(Inbox(c), "new_message")
                n    == Len(messageHistory)
            IN  /\ Len(seen) <= n
                /\ [i \in DOMAIN seen |-> seen[i].message]
                      = SubSeq(messageHistory, n - Len(seen) + 1, n)

\* an open client has seen two messages with different contents
C2_Witness ==
    \E c \in SocketIds :
        /\ sockets[c] = "open"
        /\ LET seen == OfType(Inbox(c), "new_message")
           IN  Len(seen) >= 2 /\ seen[1].message.content # seen[2].message.content

\* C3  Registration: right after register_user(U), U non-empty, on a connection
\* that had no session, the registry holds exactly one session for it,
\* {id, username U, status online}, and the first event the handler sent to it
\* is user_registered carrying its id and the whole log in append order.
C3_Registration ==
    (last.kind = "register_user" /\ ~Empty(last.arg) /\ ~last.had) =>
        /\ Len(SelectSeq(activeUsers, LAMBDA e : e.key = last.id)) = 1
        /\ GetUser(activeUsers, last.id)
              = [id |-> last.id, username |-> last.arg, status |-> "online"]
        /\ Received(last.id, NewEmits) # <<>>
        /\ Received(last.id, NewEmits)[1]
              = [type |-> "user_registered", userId |-> last.id,
                 messageHistory |-> messageHistory]
        /\ Len(OfType(Received(last.id, NewEmits), "user_registered")) = 1

\* a connection registers when the log already holds two messages
C3_Witness ==
    /\ last.kind = "register_user" /\ ~Empty(last.arg) /\ ~last.had
    /\ Len(messageHistory) >= 2

\* C4  Empty-username rejection: register_user with "" or no username on a
\* connection without a session leaves registry and log unchanged, emits
\* nothing but one system_error to that connection, and closes the
\* connection; a closed connection never leaves the closed state.
C4_EmptyUsernameRejected ==
    [][ /\ (Handled /\ last'.kind = "register_user" /\ Empty(last'.arg) /\ ~last'.had) =>
            /\ activeUsers' = activeUsers
            /\ messageHistory' = messageHistory
            /\ emitted' = Append(emitted,
                 [ev |-> [type |-> "system_error", text |-> "Username cannot be empty."],
                  to |-> {last'.id}])
            /\ sockets' = [sockets EXCEPT ![last'.id] = "closed"]
        /\ \A c \in SocketIds : sockets[c] = "closed" => sockets'[c] = "closed"
      ]_vars

\* an empty registration was rejected while another client was registered
C4_Witness ==
    /\ last.kind = "register_user" /\ Empty(last.arg) /\ ~last.had
    /\ sockets[last.id] = "closed"
    /\ Registered # {}

\* C5  Unauthenticated send: send_message on a connection without a session
\* emits exactly one event, system_error to that connection alone, and leaves
\* the log, the registry and the connection states unchanged.
C5_UnauthenticatedSend ==
    [][ (Handled /\ last'.kind = "send_message" /\ ~last'.had) =>
            /\ messageHistory' = messageHistory
            /\ activeUsers' = activeUsers
            /\ sockets' = sockets
            /\ Len(emitted') = Len(emitted) + 1
            /\ Last(emitted').ev.type = "system_error"
            /\ Last(emitted').to = {last'.id}
      ]_vars

\* an unregistered connection sent while another client was registered and
\* the log was non-empty
C5_Witness ==
    /\ last.kind = "send_message" /\ ~last.had
    /\ Registered # {}
    /\ messageHistory # <<>>

\* C6  Disconnect cleanup: a closed connection has no session; user_left(c) is
\* emitted exactly once if c closed while registered and never otherwise; it
\* goes to the connections still open, is followed at once by active_users to
\* the same recipients, and no active_users snapshot from then on contains c.
UserLeftAt(c) ==
    {i \in DOMAIN emitted : emitted[i].ev.type = "user_left" /\ emitted[i].ev.id = c}

C6_DisconnectCleanup ==
    \A c \in SocketIds :
        /\ sockets[c] = "closed" => ~HasUser(activeUsers, c)
        /\ Cardinality(UserLeftAt(c))
              = IF sockets[c] = "closed" /\ socketUsername[c] # Undefined THEN 1 ELSE 0
        /\ \A i \in UserLeftAt(c) :
              /\ c \notin emitted[i].to
              /\ i + 1 <= Len(emitted)
              /\ emitted[i + 1].ev.type = "active_users"
              /\ emitted[i + 1].to = emitted[i].to
              /\ \A j \in (i + 1)..Len(emitted) :
                    emitted[j].ev.type = "active_users" =>
                        \A k \in DOMAIN emitted[j].ev.users :
                            emitted[j].ev.users[k].id # c

\* a registered connection closed and a registered survivor was told
C6_Witness ==
    \E c \in SocketIds :
        /\ sockets[c] = "closed"
        /\ \E i \in UserLeftAt(c) : emitted[i].to \cap Registered # {}

\* C7  Typing exclusion: typing_start / typing_stop on a registered connection A
\* emits exactly one typing_status {userId A, A's username, the matching flag},
\* delivered to every other open connection (so to every other registered one)
\* and not to A; registry and log are unchanged.
C7_TypingExclusion ==
    [][ (Handled /\ last'.kind \in {"typing_start", "typing_stop"} /\ last'.had) =>
            /\ activeUsers' = activeUsers
            /\ messageHistory' = messageHistory
            /\ Len(emitted') = Len(emitted) + 1
            /\ SubSeq(emitted', 1, Len(emitted)) = emitted
            /\ Last(emitted').ev
                  = [type |-> "typing_status", userId |-> last'.id,
                     username |-> GetUser(activeUsers, last'.id).username,
                     isTyping |-> (last'.kind = "typing_start")]
            /\ last'.id \notin Last(emitted').to
            /\ Registered \ {last'.id} \subseteq Last(emitted').to
      ]_vars

\* a registered connection typed while another registered connection was open
C7_Witness ==
    /\ last.kind \in {"typing_start", "typing_stop"} /\ last.had
    /\ Registered \ {last.id} # {}

\* C8  Username immutability: while a connection keeps its session, the
\* session's username does not change.
C8_UsernameImmutable ==
    [][ \A c \in SocketIds :
            (HasUser(activeUsers, c) /\ HasUser(activeUsers', c)) =>
                GetUser(activeUsers', c).username = GetUser(activeUsers, c).username
      ]_vars

\* C9  Message identifier uniqueness: any two distinct log entries have
\* different messageId values.
C9_MessageIdUnique ==
    \A i, j \in DOMAIN messageHistory :
        i # j => messageHistory[i].messageId # messageHistory[j].messageId

\* C10  Append-only log: every step leaves the old log as a prefix of the new
\* one; the log changes only in a send_message handled for a connection with a
\* session, and then grows by exactly one entry.
C10_AppendOnly ==
    [][ /\ IsPrefix(messageHistory, messageHistory')
        /\ messageHistory' # messageHistory =>
              /\ Handled /\ last'.kind = "send_message" /\ last'.had
              /\ Len(messageHistory') = Len(messageHistory) + 1
        /\ (Handled /\ last'.kind = "send_message" /\ last'.had) =>
              Len(messageHistory') = Len(messageHistory) + 1
      ]_vars

\* the log holds two entries and a later event of another kind was handled
C10_Witness ==
    /\ Len(messageHistory) >= 2
    /\ last.kind \in {"register_user", "disconnect", "typing_start"}

\* some handler has mutated state and still has emits to make
Busy == \E c \in SocketIds : pc[c].at # "idle"

\* the event types a completed handler run must have emitted, in order
Announced(ev) ==
    CASE ev.kind = "register_user" /\ ~Empty(ev.arg) ->
            <<"user_registered", "user_joined", "active_users">>
      [] ev.kind = "register_user" /\ Empty(ev.arg) /\ ev.had ->
            <<"system_error", "user_left", "active_users">>
      [] ev.kind = "register_user" /\ Empty(ev.arg) /\ ~ev.had -> <<"system_error">>
      [] ev.kind = "send_message" /\ ev.had -> <<"new_message", "typing_status">>
      [] ev.kind = "send_message" /\ ~ev.had -> <<"system_error">>
      [] ev.kind \in {"typing_start", "typing_stop"} /\ ev.had -> <<"typing_status">>
      [] ev.kind = "disconnect" /\ ev.had -> <<"user_left", "active_users">>
      [] OTHER -> <<>>

\* C11  Mutation/broadcast atomicity (statement-level model): while a handler
\* stands between its mutation and the last emit that announces it, no other
\* inbound event is taken up and the only step is that handler's next emit;
\* whenever no handler is running, the emits since the last inbound event are
\* exactly that event's own, in order.
C11_Atomicity ==
    [][ /\ Busy =>
            /\ last' = last
            /\ activeUsers' = activeUsers
            /\ messageHistory' = messageHistory
            /\ sockets' = sockets
            /\ Len(emitted') = Len(emitted) + 1
            /\ SubSeq(emitted', 1, Len(emitted)) = emitted
        /\ ~Busy' =>
            LET new == SubSeq(emitted', last'.mark + 1, Len(emitted'))
            IN  [i \in DOMAIN new |-> new[i].ev.type] = Announced(last')
      ]_vars

\* a send handler has pushed its message and not yet broadcast it, with
\* another client open to send the next inbound event
C11_Witness ==
    \E c \in SocketIds :
        /\ pc[c].at = "98"
        /\ Room(sockets) \ {c} # {}

\* C12  Session lifecycle: the registry holds at most one session per
\* connection identity, keyed by the session's own id, and holds one for c
\* exactly when c is open and has completed a successful register_user.
C12_SessionLifecycle ==
    /\ \A i \in DOMAIN activeUsers :
          /\ activeUsers[i].key \in SocketIds
          /\ activeUsers[i].value.id = activeUsers[i].key
    /\ \A c \in SocketIds :
          /\ Len(SelectSeq(activeUsers, LAMBDA e : e.key = c)) <= 1
          /\ HasUser(activeUsers, c)
                <=> (sockets[c] = "open" /\ socketUsername[c] # Undefined)

\* one connection registered and closed, one is registered, one never registered
C12_Witness ==
    /\ \E c \in SocketIds : sockets[c] = "closed" /\ socketUsername[c] # Undefined
    /\ \E c \in SocketIds : sockets[c] = "open" /\ socketUsername[c] = Undefined
    /\ Registered # {}

\* C13  Sender snapshot: a log entry is appended with the id and username of
\* the sender's session at that moment; no later step changes an entry; and
\* the history replayed by user_registered is the log as stored, with the
\* original senderName.
C13_SenderSnapshot ==
    [][ /\ (Handled /\ last'.kind = "send_message" /\ last'.had) =>
            /\ Last(messageHistory').senderId = last'.id
            /\ Last(messageHistory').senderId = GetUser(activeUsers, last'.id).id
            /\ Last(messageHistory').senderName = GetUser(activeUsers, last'.id).username
        /\ IsPrefix(messageHistory, messageHistory')
        /\ (Handled /\ last'.kind = "register_user" /\ ~Empty(last'.arg)) =>
            /\ emitted'[Len(emitted) + 1].ev.type = "user_registered"
            /\ emitted'[Len(emitted) + 1].ev.messageHistory = messageHistory
      ]_vars

\* a connection has just registered and the log holds an entry whose sender
\* has no session any more, or has one under another username
C13_Witness ==
    /\ last.kind = "register_user" /\ ~Empty(last.arg)
    /\ \E i \in DOMAIN messageHistory :
          \/ ~HasUser(activeUsers, messageHistory[i].senderId)
          \/ GetUser(activeUsers, messageHistory[i].senderId).username
                # messageHistory[i].senderName

\* C14  Silent unauthenticated typing: typing_start / typing_stop on a
\* connection without a session emits nothing and changes neither registry,
\* log nor connection states.
C14_SilentTyping ==
    [][ (Handled /\ last'.kind \in {"typing_start", "typing_stop"} /\ ~last'.had) =>
            /\ emitted' = emitted
            /\ activeUsers' = activeUsers
            /\ messageHistory' = messageHistory
            /\ sockets' = sockets
      ]_vars

\* an unregistered connection typed while a registered client was listening
C14_Witness ==
    /\ last.kind \in {"typing_start", "typing_stop"} /\ ~last.had
    /\ Registered # {}

\* C15  Disconnect without session: closing a connection that has no session
\* emits nothing and leaves registry and log unchanged (a close forced by an
\* empty username emits only that system_error); hence every user_left ever
\* emitted names a connection that had registered.
C15_DisconnectWithoutSession ==
    [][ /\ (Handled /\ last'.kind = "disconnect" /\ ~last'.had) =>
            /\ emitted' = emitted
            /\ activeUsers' = activeUsers
            /\ messageHistory' = messageHistory
        /\ (Handled /\ ~last'.had /\ sockets[last'.id] = "open"
                    /\ sockets'[last'.id] = "closed") =>
            \A i \in (Len(emitted) + 1)..Len(emitted') :
                emitted'[i].ev.type \notin {"user_left", "active_users"}
        /\ \A i \in DOMAIN emitted' :
              emitted'[i].ev.type = "user_left" =>
                  socketUsername'[emitted'[i].ev.id] # Undefined
      ]_vars

\* an unregistered connection closed while a registered client was listening
C15_Witness ==
    /\ last.kind = "disconnect" /\ ~last.had
    /\ Registered # {}

\* how many of the first i emits are new_message
NewMessagesUpTo(i) ==
    Cardinality({j \in 1..i : emitted[j].ev.type = "new_message"})

\* C16  Send sequence (statement-level model): the k-th new_message emitted
\* carries the k-th log entry, which is already in the log when the emit is
\* made; it goes to the sender too, and the very next emit is
\* typing_status {userId: sender, isTyping: false} to the same recipients
\* (until it is made, the sender's handler stands at that emit).
C16_SendSequence ==
    \A i \in DOMAIN emitted :
        emitted[i].ev.type = "new_message" =>
            LET m == emitted[i].ev.message
                k == NewMessagesUpTo(i)
            IN  /\ k <= Len(messageHistory)
                /\ messageHistory[k] = m
                /\ m.senderId \in emitted[i].to
                /\ IF i < Len(emitted)
                   THEN /\ emitted[i + 1].ev
                              = [type |-> "typing_status", userId |-> m.senderId,
                                 isTyping |-> FALSE]
                        /\ emitted[i + 1].to = emitted[i].to
                   ELSE pc[m.senderId].at = "102"

\* a send by one of two registered clients has been fully announced
C16_Witness ==
    /\ ~Busy
    /\ last.kind = "send_message" /\ last.had
    /\ Cardinality(Registered) >= 2
    /\ Len(emitted) >= 2
    /\ emitted[Len(emitted) - 1].ev.type = "new_message"
    /\ Registered \subseteq emitted[Len(emitted)].to

\* C17  Join sequence: a register_user with a non-empty username emits exactly
\* user_registered to the caller, then user_joined {id, username} to every
\* open connection (the caller included), then active_users to the same
\* connections with a snapshot that contains the caller's new session.
C17_JoinSequence ==
    (last.kind = "register_user" /\ ~Empty(last.arg)) =>
        /\ Len(NewEmits) = 3
        /\ NewEmits[1].ev.type = "user_registered"
        /\ NewEmits[1].ev.userId = last.id
        /\ NewEmits[1].to = {last.id}
        /\ NewEmits[2].ev = [type |-> "user_joined", id |-> last.id, username |-> last.arg]
        /\ NewEmits[2].to = Room(sockets)
        /\ last.id \in NewEmits[2].to
        /\ NewEmits[3].ev.type = "active_users"
        /\ NewEmits[3].to = Room(sockets)
        /\ \E k \in DOMAIN NewEmits[3].ev.users :
              NewEmits[3].ev.users[k]
                 = [id |-> last.id, username |-> last.arg, status |-> "online"]

\* a connection registered while two other connections were open
C17_Witness ==
    /\ last.kind = "register_user" /\ ~Empty(last.arg)
    /\ Cardinality(Room(sockets) \ {last.id}) >= 2

\* positions of the active_users emits in a sequence of emits
ActiveUsersAt(emits) == {i \in DOMAIN emits : emits[i].ev.type = "active_users"}
MaxOf(S) == CHOOSE x \in S : \A y \in S : y <= x

\* C18  Presence consistency: after every step, the registry is empty if no
\* active_users was ever emitted, and otherwise the latest active_users
\* snapshot lists the registry's sessions in order; a step that changes the
\* registry ends with an active_users emit of its own.
C18_PresenceConsistency ==
    [][ /\ IF ActiveUsersAt(emitted') = {}
           THEN activeUsers' = <<>>
           ELSE emitted'[MaxOf(ActiveUsersAt(emitted'))].ev.users
                   = [i \in DOMAIN activeUsers' |-> activeUsers'[i].value]
        /\ activeUsers' # activeUsers =>
              /\ Len(emitted') > Len(emitted)
              /\ Last(emitted').ev.type = "active_users"
      ]_vars

\* one of two registered clients has closed and the survivor was told
C18_Witness ==
    /\ last.kind = "disconnect" /\ last.had
    /\ Registered # {}
    /\ emitted # <<>>
    /\ Registered \subseteq Last(emitted).to

\* positions of user_registered in what a client received
RegisteredAt(box) == {i \in DOMAIN box : box[i].type = "user_registered"}

\* C19  Gap-free history: for an open connection that has registered exactly
\* once, the history of its user_registered followed by the messages of the
\* new_message events it received afterwards is the log.
C19_GapFreeHistory ==
    \A c \in SocketIds :
        (sockets[c] = "open" /\ Cardinality(RegisteredAt(Inbox(c))) = 1) =>
            LET box   == Inbox(c)
                k     == CHOOSE i \in RegisteredAt(box) : TRUE
                later == OfType(SubSeq(box, k + 1, Len(box)), "new_message")
            IN  box[k].messageHistory \o [i \in DOMAIN later |-> later[i].message]
                   = messageHistory

\* a client was replayed a non-empty history and then sent a message itself
C19_Witness ==
    \E c \in SocketIds :
        /\ sockets[c] = "open" /\ Cardinality(RegisteredAt(Inbox(c))) = 1
        /\ LET box == Inbox(c)
               k   == CHOOSE i \in RegisteredAt(box) : TRUE
           IN  /\ box[k].messageHistory # <<>>
               /\ Len(messageHistory) > Len(box[k].messageHistory)
               /\ Last(messageHistory).senderId = c

\* C20  Fan-out to unregistered connections: every new_message, post-send
\* typing_status, user_joined, active_users and user_left is addressed to
\* every connection open when the handler ends, registered or not.
C20_FanOutToAll ==
    [][ Handled =>
          \A i \in (Len(emitted) + 1)..Len(emitted') :
              ( \/ emitted'[i].ev.type \in
                      {"new_message", "user_joined", "active_users", "user_left"}
                \/ (emitted'[i].ev.type = "typing_status" /\ last'.kind = "send_message") )
              => emitted'[i].to = Room(sockets')
      ]_vars

\* a connection that never registered has received a new_message
C20_Witness ==
    \E c \in SocketIds :
        /\ sockets[c] = "open" /\ socketUsername[c] = Undefined
        /\ OfType(Inbox(c), "new_message") # <<>>

====
